---- MODULE Spec2Model ----
(***************************************************************************)
(* Model of annict-search (src/main.py): the episode fetch, the rename     *)
(* planner and the rename executor, with the interactive controller that   *)
(* drives them.  Strings are sequences of one-character strings.           *)
(***************************************************************************)
EXTENDS FiniteSets, Integers, Sequences, TLC

VARIABLES pc, ANNICT_TOKEN, mode, works_list, status, requests, data,
          episode_list, dir, dir0, sorted_files_all, start_file_num_input,
          sorted_files, rename_plan, planBuilt, confirmation, abort,
          attempted, arg, ret

vars == <<pc, ANNICT_TOKEN, mode, works_list, status, requests, data,
          episode_list, dir, dir0, sorted_files_all, start_file_num_input,
          sorted_files, rename_plan, planBuilt, confirmation, abort,
          attempted, arg, ret>>

(* ------------------------------ bounds --------------------------------- *)

MaxLabelLen == 3

MaxTitleLen == 2

MaxEpisodes == 2

MaxItems == 3

MaxFiles == 3

MaxWorks == 2

(* --------------------------- characters -------------------------------- *)

\* Optional values: None is the empty tuple, a present value v is <<v>>
None == <<>>

Some(v) == <<v>>

Digits == {"0", "1", "2", "3", "4", "5", "6", "7", "8", "9"}

DigitVal(c) ==
    CASE c = "0" -> 0 [] c = "1" -> 1 [] c = "2" -> 2 [] c = "3" -> 3
      [] c = "4" -> 4 [] c = "5" -> 5 [] c = "6" -> 6 [] c = "7" -> 7
      [] c = "8" -> 8 [] c = "9" -> 9

DigitChar(n) ==
    CASE n = 0 -> "0" [] n = 1 -> "1" [] n = 2 -> "2" [] n = 3 -> "3"
      [] n = 4 -> "4" [] n = 5 -> "5" [] n = 6 -> "6" [] n = 7 -> "7"
      [] n = 8 -> "8" [] n = 9 -> "9"

\* str.lower(), on the letters the model uses
Lower(c) ==
    CASE c = "A" -> "a" [] c = "B" -> "b" [] c = "K" -> "k" [] c = "M" -> "m"
      [] c = "N" -> "n" [] c = "P" -> "p" [] c = "V" -> "v" [] c = "Y" -> "y"
      [] OTHER -> c

LowerStr(s) == [i \in 1..Len(s) |-> Lower(s[i])]

\* code points, for the string comparisons of the sort key
Ord(c) ==
    CASE c = " " -> 32 [] c = "-" -> 45 [] c = "." -> 46
      [] c = "A" -> 65 [] c = "B" -> 66 [] c = "K" -> 75 [] c = "M" -> 77
      [] c = "V" -> 86 [] c = "_" -> 95 [] c = "a" -> 97 [] c = "e" -> 101
      [] c = "k" -> 107 [] c = "m" -> 109 [] c = "n" -> 110 [] c = "p" -> 112
      [] c = "t" -> 116 [] c = "v" -> 118 [] c = "x" -> 120

(* --------------------- extract_episode_number -------------------------- *)

\* int() of a run of decimal digits
RECURSIVE IntOfDigits(_)
IntOfDigits(s) ==
    IF s = <<>> THEN 0
    ELSE 10 * IntOfDigits(SubSeq(s, 1, Len(s) - 1)) + DigitVal(s[Len(s)])

\* \d+ matched greedily from position p: the last position of the run
RECURSIVE GreedyDigits(_, _)
GreedyDigits(text, p) ==
    IF p < Len(text) /\ text[p + 1] \in Digits
    THEN GreedyDigits(text, p + 1)
    ELSE p

\* a mutant: the match taken with its '.digits' fraction, the dot dropped
MatchWithFraction(text, p) ==
    LET e == GreedyDigits(text, p)
    IN  IF e + 1 < Len(text) /\ text[e + 1] = "." /\ text[e + 2] \in Digits
        THEN SubSeq(text, p, e) \o SubSeq(text, e + 2, GreedyDigits(text, e + 2))
        ELSE SubSeq(text, p, e)

\* group(1) of the match of (\d+)(?:\.\d+)? that starts at position p
MatchGroup1(text, p) == SubSeq(text, p, GreedyDigits(text, p))

\* re.search: the leftmost position at which the pattern matches, 0 if none
RECURSIVE SearchFrom(_, _)
SearchFrom(text, p) ==
    IF p > Len(text) THEN 0
    ELSE IF text[p] \in Digits THEN p
    ELSE SearchFrom(text, p + 1)

extract_episode_number(text) ==
    LET p == SearchFrom(text, 1)
    IN  IF p # 0 THEN Some(IntOfDigits(MatchGroup1(text, p))) ELSE None

(* ------------------------ title sanitization --------------------------- *)

\* the character class of the pattern [\\/:*?"<>|]
Reserved == {"\\", "/", ":", "*", "?", "\"", "<", ">", "|"}

\* a mutant: the class without the backslash
ReservedNoBackslash == {"/", ":", "*", "?", "\"", "<", ">", "|"}

ReservedClass == Reserved

re_sub(title) ==
    [i \in 1..Len(title) |-> IF title[i] \in ReservedClass THEN "_" ELSE title[i]]

\* stands for the eight-character placeholder title; none of its characters
\* is reserved
NoTitle == <<"(", "n", ")">>

(* ----------------------------- getEpisodes ----------------------------- *)

\* A JSON number is kept in halves (3 is 6, 3.5 is 7, -0.5 is -1); null is
\* [isnum |-> FALSE].  int() truncates toward zero.
JsonNull == [isnum |-> FALSE, halves |-> 0]

JsonNum(h) == [isnum |-> TRUE, halves |-> h]

\* a mutant: rounding toward minus infinity
int_floor(h) == h \div 2

int_trunc(h) == IF h >= 0 THEN h \div 2 ELSE -((-h) \div 2)

\* x or default, for an optional string: null and "" both give the default
OrElse(opt, default) == IF opt = None \/ opt[1] = <<>> THEN default ELSE opt[1]

\* a mutant: number_text is read first when it holds a number
episode_num_text_first(episode) ==
    IF extract_episode_number(OrElse(episode.number_text, <<>>)) # None
    THEN extract_episode_number(OrElse(episode.number_text, <<>>))
    ELSE IF episode.number.isnum
    THEN Some(int_trunc(episode.number.halves))
    ELSE None

episode_num_of(episode) ==
    IF episode.number.isnum
    THEN Some(int_trunc(episode.number.halves))
    ELSE extract_episode_number(OrElse(episode.number_text, <<>>))

\* the loop over data["episodes"]: the rows appended to episode_list
RECURSIVE EpisodeRows(_)
EpisodeRows(episodes) ==
    IF episodes = <<>> THEN <<>>
    ELSE LET episode == episodes[Len(episodes)]
             episode_num == episode_num_of(episode)
             episode_title == OrElse(episode.title, NoTitle)
             before == EpisodeRows(SubSeq(episodes, 1, Len(episodes) - 1))
         IN  IF episode_num # None
             THEN Append(before, [num |-> episode_num[1],
                                  title |-> re_sub(episode_title)])
             ELSE before

(* ------------------------- file-name helpers --------------------------- *)

EndsWith(s, suffix) ==
    /\ Len(s) >= Len(suffix)
    /\ SubSeq(s, Len(s) - Len(suffix) + 1, Len(s)) = suffix

\* file_name.lower().endswith(('.mp4', '.mkv'))
IsVideo(file_name) ==
    \/ EndsWith(LowerStr(file_name), <<".", "m", "p", "4">>)
    \/ EndsWith(LowerStr(file_name), <<".", "m", "k", "v">>)

\* os.path.splitext(p)[1]: from the last dot, unless only dots precede it
splitext_ext(p) ==
    LET dots == {i \in 1..Len(p) : p[i] = "."}
    IN  IF dots = {} THEN <<>>
        ELSE LET dot == CHOOSE i \in dots : \A j \in dots : j <= i
             IN  IF \E j \in 1..(dot - 1) : p[j] # "."
                 THEN SubSeq(p, dot, Len(p))
                 ELSE <<>>

\* str(n) of a natural number
RECURSIVE StrOfNat(_)
StrOfNat(n) ==
    IF n < 10 THEN <<DigitChar(n)>>
    ELSE Append(StrOfNat(n \div 10), DigitChar(n % 10))

str(n) == IF n < 0 THEN <<"-">> \o StrOfNat(-n) ELSE StrOfNat(n)

\* s.zfill(width): zeros go after a leading sign
zfill(s, width) ==
    LET zeros == [i \in 1..(width - Len(s)) |-> "0"]
    IN  IF Len(s) >= width THEN s
        ELSE IF s[1] \in {"+", "-"} THEN <<s[1]>> \o zeros \o Tail(s)
        ELSE zeros \o s

\* a mutant: no padding
new_name_unpadded(episode_num, episode_title, ext) ==
    str(episode_num) \o <<" ", "-", " ">> \o episode_title \o ext

\* f"{num_str} - {episode_title}{ext}"
new_name_of(episode_num, episode_title, ext) ==
    zfill(str(episode_num), 2) \o <<" ", "-", " ">> \o episode_title \o ext

(* ------------------------------ natsorted ------------------------------ *)

\* the last position of the run of non-digits that starts s, 0 if s starts
\* with a digit
RECURSIVE NonDigitEnd(_, _)
NonDigitEnd(s, p) ==
    IF p < Len(s) /\ s[p + 1] \notin Digits THEN NonDigitEnd(s, p + 1) ELSE p

\* the sort key: the string cut into its alternating runs, a string run
\* (possibly empty) first, each digit run as its number
RECURSIVE natsort_key(_)
natsort_key(s) ==
    IF s = <<>> THEN <<>>
    ELSE LET e == NonDigitEnd(s, 0)
             rest == SubSeq(s, e + 1, Len(s))
         IN  IF rest = <<>> THEN <<SubSeq(s, 1, e)>>
             ELSE LET d == GreedyDigits(rest, 1)
                  IN  <<SubSeq(s, 1, e), IntOfDigits(SubSeq(rest, 1, d))>>
                          \o natsort_key(SubSeq(rest, d + 1, Len(rest)))

StrLess(a, b) ==
    \E i \in 1..Len(b) :
        /\ \A j \in 1..(i - 1) : j <= Len(a) /\ a[j] = b[j]
        /\ (i > Len(a) \/ Ord(a[i]) < Ord(b[i]))

ChunkLess(x, y, i) == IF i % 2 = 1 THEN StrLess(x, y) ELSE x < y

RECURSIVE KeyLessFrom(_, _, _)
KeyLessFrom(a, b, i) ==
    IF i > Len(b) THEN FALSE
    ELSE IF i > Len(a) THEN TRUE
    ELSE IF ChunkLess(a[i], b[i], i) THEN TRUE
    ELSE IF ChunkLess(b[i], a[i], i) THEN FALSE
    ELSE KeyLessFrom(a, b, i + 1)

NatLess(f, g) == KeyLessFrom(natsort_key(f), natsort_key(g), 1)

\* sorted() by the key: stable, equal keys keep their order
RECURSIVE natsorted(_)
natsorted(files) ==
    IF files = <<>> THEN <<>>
    ELSE LET x == files[Len(files)]
             before == natsorted(SubSeq(files, 1, Len(files) - 1))
             p == Cardinality({i \in 1..Len(before) : ~NatLess(x, before[i])})
         IN  SubSeq(before, 1, p) \o <<x>> \o SubSeq(before, p + 1, Len(before))

(* --------------------------- the rename plan --------------------------- *)

\* int(s): an optional sign and decimal digits, None for ValueError
int_of_input(s) ==
    LET body == IF s # <<>> /\ s[1] \in {"+", "-"} THEN Tail(s) ELSE s
    IN  IF body # <<>> /\ \A i \in 1..Len(body) : body[i] \in Digits
        THEN Some(IF s[1] = "-" THEN -IntOfDigits(body) ELSE IntOfDigits(body))
        ELSE None

\* start_file_index, None when the input is no integer
start_index_of(input) ==
    IF input = <<>> THEN Some(0)
    ELSE IF int_of_input(input) = None THEN None
    ELSE Some(int_of_input(input)[1] - 1)

\* a mutant: the upper end of the range is off by one
index_in_range_loose(start_file_index, n) ==
    ~(start_file_index < 0 \/ start_file_index > n)

index_in_range(start_file_index, n) ==
    ~(start_file_index < 0 \/ start_file_index >= n)

Min(a, b) == IF a < b THEN a ELSE b

\* the loop that fills rename_plan
build_plan(files, episode_titles) ==
    [i \in 1..Min(Len(files), Len(episode_titles)) |->
        [old |-> files[i],
         new |-> new_name_of(episode_titles[i].num, episode_titles[i].title,
                             splitext_ext(files[i]))]]

\* a mutant: any answer but 'n' confirms
confirmed_unless_n(answer) == answer # <<"n">>

confirmed(answer) == answer = <<"y">>

\* a mutant: the loop ends at the first error
after_attempt_stop(result, k, n) ==
    IF result = "error" \/ k >= n THEN "done" ELSE "exec"

\* where the loop over rename_plan goes after attempt k of n
after_attempt(result, k, n) == IF k >= n THEN "done" ELSE "exec"

(* --------------------------- the environment --------------------------- *)

\* the file names a directory is drawn from
FileNames ==
    { <<"e", "1", ".", "m", "p", "4">>,
      <<"e", "2", ".", "M", "K", "V">>,
      <<"e", "1", "0", ".", "m", "p", "4">>,
      <<"n", ".", "t", "x", "t">>,
      <<"0", "1", " ", "-", " ", "A", ".", "m", "p", "4">>,
      <<".", "m", "p", "4">> }

Directories == {d \in SUBSET FileNames : Cardinality(d) <= MaxFiles}

\* os.listdir: the names of the directory in an arbitrary order
Listings(d) ==
    {l \in [1..Cardinality(d) -> d] : \A i, j \in 1..Cardinality(d) : l[i] = l[j] => i = j}

\* the items of the episode responses that lead to a rename
PlanItems ==
    { [number |-> JsonNum(2),  number_text |-> None,                title |-> Some(<<"A">>)],
      [number |-> JsonNum(25), number_text |-> Some(<<"#", "9">>),  title |-> Some(<<"B", "/">>)],
      [number |-> JsonNum(-2), number_text |-> None,                title |-> Some(<<"A">>)] }

\* the items of the episode responses of the fetch alone
EpisodeItems ==
    { [number |-> JsonNum(2),  number_text |-> None,                title |-> Some(<<"A">>)],
      [number |-> JsonNum(25), number_text |-> Some(<<"#", "9">>),  title |-> Some(<<"B", "/">>)],
      [number |-> JsonNull,    number_text |-> Some(<<"#", "1", ".", "5">>), title |-> None],
      [number |-> JsonNull,    number_text |-> Some(<<"x">>),       title |-> Some(<<"A">>)],
      [number |-> JsonNum(-2), number_text |-> None,                title |-> Some(<<"A">>)],
      [number |-> JsonNum(-1), number_text |-> None,                title |-> Some(<<>>)] }

SeqsUpTo(S, n) == UNION {[1..m -> S] : m \in 0..n}

EpisodeResponses == SeqsUpTo(PlanItems, MaxEpisodes)

ItemResponses == SeqsUpTo(EpisodeItems, MaxItems)

\* the responses of the title check: one numbered episode, any title
TitleChars == Reserved \cup {"_", "a"}

TitleResponses ==
    { <<[number |-> JsonNum(2), number_text |-> None, title |-> t]>> :
        t \in {None} \cup {Some(x) : x \in SeqsUpTo(TitleChars, MaxTitleLen)} }

LabelChars == {"1", "2", "3", "5", ".", "n"}

Labels == SeqsUpTo(LabelChars, MaxLabelLen)

HttpOutcomes == {"200", "401", "ConnectionError"}

Answers == {<<"y">>, <<"Y">>, <<"n">>, <<>>}

OffsetInputs ==
    {str(n) : n \in 0..(MaxFiles + 1)}
        \cup {<<>>, <<"-", "1">>, <<"1", ".", "5">>}

SelectionInputs == {str(n) : n \in 0..(MaxWorks + 1)} \cup {<<"x">>}

(* ------------------------------- actions ------------------------------- *)

InitCommon ==
    /\ works_list = <<>>
    /\ status = "none"
    /\ requests = 0
    /\ data = <<>>
    /\ episode_list = <<>>
    /\ dir0 = dir
    /\ sorted_files_all = <<>>
    /\ start_file_num_input = <<>>
    /\ sorted_files = <<>>
    /\ rename_plan = <<>>
    /\ planBuilt = FALSE
    /\ confirmation = <<>>
    /\ abort = "none"
    /\ attempted = <<>>
    /\ ret = None

Init ==
    /\ pc = "main"
    /\ mode = "none"
    /\ ANNICT_TOKEN \in BOOLEAN
    /\ dir \in Directories
    /\ arg = <<>>
    /\ InitCommon

\* main: the mode prompt, and for mode 2 the id prompt
Main ==
    /\ pc = "main"
    /\ \E m \in {"1", "2", "x"}, id_is_int \in BOOLEAN :
          /\ mode' = m
          /\ pc' = IF m = "1" THEN "getWork"
                   ELSE IF m = "2" /\ id_is_int THEN "getEpisodes"
                   ELSE "done"
    /\ UNCHANGED <<ANNICT_TOKEN, works_list, status, requests, data,
                   episode_list, dir, dir0, sorted_files_all,
                   start_file_num_input, sorted_files, rename_plan, planBuilt,
                   confirmation, abort, attempted, arg, ret>>

\* getWork, and main's return when it gives no works
getWork ==
    /\ pc = "getWork"
    /\ IF ~ANNICT_TOKEN
       THEN /\ works_list' = <<>>
            /\ pc' = "done"
            /\ UNCHANGED <<status, requests>>
       ELSE \E outcome \in HttpOutcomes, n \in 0..MaxWorks :
              /\ status' = outcome
              /\ requests' = requests + 1
              /\ works_list' = IF outcome = "200" THEN [i \in 1..n |-> i] ELSE <<>>
              /\ pc' = IF outcome = "ConnectionError" THEN "crashed"
                       ELSE IF works_list' = <<>> THEN "done"
                       ELSE "select"
    /\ UNCHANGED <<ANNICT_TOKEN, mode, data, episode_list, dir, dir0,
                   sorted_files_all, start_file_num_input, sorted_files,
                   rename_plan, planBuilt, confirmation, abort, attempted,
                   arg, ret>>

\* main: the selection of a work
Select ==
    /\ pc = "select"
    /\ \E selection \in SelectionInputs :
          LET selection_index == int_of_input(selection)
          IN  pc' = IF /\ selection_index # None
                       /\ 0 <= selection_index[1] - 1
                       /\ selection_index[1] - 1 < Len(works_list)
                    THEN "getEpisodes"
                    ELSE "done"
    /\ UNCHANGED <<ANNICT_TOKEN, mode, works_list, status, requests, data,
                   episode_list, dir, dir0, sorted_files_all,
                   start_file_num_input, sorted_files, rename_plan, planBuilt,
                   confirmation, abort, attempted, arg, ret>>

\* getEpisodes, the server answering with one of Responses
getEpisodes(Responses) ==
    /\ pc = "getEpisodes"
    /\ IF ~ANNICT_TOKEN
       THEN /\ episode_list' = <<>>
            /\ pc' = IF mode = "1" THEN "rename_confirm" ELSE "done"
            /\ UNCHANGED <<status, requests, data>>
       ELSE \E outcome \in HttpOutcomes, response \in Responses :
              /\ status' = outcome
              /\ requests' = requests + 1
              /\ data' = IF outcome = "200" THEN response ELSE <<>>
              /\ episode_list' = EpisodeRows(data')
              /\ pc' = IF outcome = "ConnectionError" THEN "crashed"
                       ELSE IF mode = "1" THEN "rename_confirm"
                       ELSE "done"
    /\ UNCHANGED <<ANNICT_TOKEN, mode, works_list, dir, dir0,
                   sorted_files_all, start_file_num_input, sorted_files,
                   rename_plan, planBuilt, confirmation, abort, attempted,
                   arg, ret>>

GetEpisodes == getEpisodes(EpisodeResponses)

\* main: the prompt that leads to rename_files_with_titles
RenameConfirm ==
    /\ pc = "rename_confirm"
    /\ \E answer \in Answers :
          IF confirmed(LowerStr(answer))
          THEN IF episode_list # <<>>
               THEN pc' = "rename" /\ abort' = abort
               ELSE pc' = "done" /\ abort' = "EmptyEpisodes"
          ELSE pc' = "done" /\ abort' = "Skipped"
    /\ UNCHANGED <<ANNICT_TOKEN, mode, works_list, status, requests, data,
                   episode_list, dir, dir0, sorted_files_all,
                   start_file_num_input, sorted_files, rename_plan, planBuilt,
                   confirmation, attempted, arg, ret>>

\* rename_files_with_titles up to the sorted listing
RenameListing ==
    /\ pc = "rename"
    /\ IF episode_list = <<>>
       THEN /\ pc' = "done"
            /\ abort' = "EmptyEpisodes"
            /\ UNCHANGED sorted_files_all
       ELSE \E isdir \in BOOLEAN, all_files \in Listings(dir) :
              LET video_files == SelectSeq(all_files, IsVideo)
              IN  IF ~isdir
                  THEN /\ pc' = "done"
                       /\ abort' = "InvalidFolder"
                       /\ UNCHANGED sorted_files_all
                  ELSE IF video_files = <<>>
                  THEN /\ pc' = "done"
                       /\ abort' = "NoMatchingFiles"
                       /\ UNCHANGED sorted_files_all
                  ELSE /\ pc' = "offset"
                       /\ abort' = abort
                       /\ sorted_files_all' = natsorted(video_files)
    /\ UNCHANGED <<ANNICT_TOKEN, mode, works_list, status, requests, data,
                   episode_list, dir, dir0, start_file_num_input,
                   sorted_files, rename_plan, planBuilt, confirmation,
                   attempted, arg, ret>>

\* the offset prompt, the slice, and the plan when no warning is due
RenameOffset ==
    /\ pc = "offset"
    /\ \E input \in OffsetInputs :
          LET start_file_index == start_index_of(input)
          IN  /\ start_file_num_input' = input
              /\ IF \/ start_file_index = None
                    \/ ~index_in_range(start_file_index[1], Len(sorted_files_all))
                 THEN /\ pc' = "done"
                      /\ abort' = "InvalidOffset"
                      /\ UNCHANGED <<sorted_files, rename_plan, planBuilt>>
                 ELSE /\ sorted_files' = SubSeq(sorted_files_all, start_file_index[1] + 1,
                                                Len(sorted_files_all))
                      /\ abort' = abort
                      /\ IF Len(sorted_files') > Len(episode_list)
                         THEN /\ pc' = "warn"
                              /\ UNCHANGED <<rename_plan, planBuilt>>
                         ELSE /\ pc' = "plan_confirm"
                              /\ rename_plan' = build_plan(sorted_files', episode_list)
                              /\ planBuilt' = TRUE
    /\ UNCHANGED <<ANNICT_TOKEN, mode, works_list, status, requests, data,
                   episode_list, dir, dir0, sorted_files_all, confirmation,
                   attempted, arg, ret>>

\* the warning about more files than episodes, and the plan after it
RenameWarn ==
    /\ pc = "warn"
    /\ \E answer \in Answers :
          /\ confirmation' = LowerStr(answer)
          /\ IF confirmed(confirmation')
             THEN /\ pc' = "plan_confirm"
                  /\ abort' = abort
                  /\ rename_plan' = build_plan(sorted_files, episode_list)
                  /\ planBuilt' = TRUE
             ELSE /\ pc' = "done"
                  /\ abort' = "DeclinedWarning"
                  /\ UNCHANGED <<rename_plan, planBuilt>>
    /\ UNCHANGED <<ANNICT_TOKEN, mode, works_list, status, requests, data,
                   episode_list, dir, dir0, sorted_files_all,
                   start_file_num_input, sorted_files, attempted, arg, ret>>

\* the confirmation of the plan
RenamePlanConfirm ==
    /\ pc = "plan_confirm"
    /\ \E answer \in Answers :
          /\ confirmation' = LowerStr(answer)
          /\ IF confirmed(confirmation')
             THEN /\ pc' = after_attempt("ok", 0, Len(rename_plan))
                  /\ abort' = abort
             ELSE /\ pc' = "done"
                  /\ abort' = "DeclinedPlan"
    /\ UNCHANGED <<ANNICT_TOKEN, mode, works_list, status, requests, data,
                   episode_list, dir, dir0, sorted_files_all,
                   start_file_num_input, sorted_files, rename_plan, planBuilt,
                   attempted, arg, ret>>

\* os.rename(old, new) on directory d: the directory after it
os_rename(d, old, new) == (d \ {old}) \cup {new}

\* one turn of the loop over rename_plan: os.rename succeeds, replacing a
\* file that has the new name, or raises OSError (always, when the old name
\* is gone)
RenameStep ==
    /\ pc = "exec"
    /\ LET k == Len(attempted) + 1
           entry == rename_plan[k]
       IN  \E oserror \in BOOLEAN :
             LET result == IF oserror \/ entry.old \notin dir THEN "error" ELSE "ok"
             IN  /\ attempted' = Append(attempted, [old |-> entry.old,
                                                    new |-> entry.new,
                                                    result |-> result])
                 /\ dir' = IF result = "ok"
                           THEN os_rename(dir, entry.old, entry.new)
                           ELSE dir
                 /\ pc' = after_attempt(result, k, Len(rename_plan))
    /\ UNCHANGED <<ANNICT_TOKEN, mode, works_list, status, requests, data,
                   episode_list, dir0, sorted_files_all, start_file_num_input,
                   sorted_files, rename_plan, planBuilt, confirmation, abort,
                   arg, ret>>

Next ==
    \/ Main
    \/ getWork
    \/ Select
    \/ GetEpisodes
    \/ RenameConfirm
    \/ RenameListing
    \/ RenameOffset
    \/ RenameWarn
    \/ RenamePlanConfirm
    \/ RenameStep

Spec == Init /\ [][Next]_vars

(* ------------- extract_episode_number on every short label ------------ *)

InitExtract ==
    /\ pc = "call"
    /\ mode = "none"
    /\ ANNICT_TOKEN = TRUE
    /\ dir = {}
    /\ arg \in Labels
    /\ InitCommon

ExtractCall ==
    /\ pc = "call"
    /\ ret' = extract_episode_number(arg)
    /\ pc' = "returned"
    /\ UNCHANGED <<ANNICT_TOKEN, mode, works_list, status, requests, data,
                   episode_list, dir, dir0, sorted_files_all,
                   start_file_num_input, sorted_files, rename_plan, planBuilt,
                   confirmation, abort, attempted, arg>>

NextExtract == ExtractCall

SpecExtract == InitExtract /\ [][NextExtract]_vars

(* ------------------ getEpisodes on every short response --------------- *)

InitEpisodes ==
    /\ pc = "getEpisodes"
    /\ mode = "2"
    /\ ANNICT_TOKEN \in BOOLEAN
    /\ dir = {}
    /\ arg = <<>>
    /\ InitCommon

GetEpisodesItems == getEpisodes(ItemResponses)

NextEpisodes == GetEpisodesItems

SpecEpisodes == InitEpisodes /\ [][NextEpisodes]_vars

(* ---------- getEpisodes on every short title, sanitized again ---------- *)

InitSanitize ==
    /\ pc = "getEpisodes"
    /\ mode = "2"
    /\ ANNICT_TOKEN = TRUE
    /\ dir = {}
    /\ arg = <<>>
    /\ InitCommon

GetEpisodesTitles == getEpisodes(TitleResponses)

\* the substitution of line 61 applied to a title it has produced
Resanitize ==
    /\ pc = "done"
    /\ episode_list # <<>>
    /\ ret' = Some(re_sub(episode_list[1].title))
    /\ pc' = "resanitized"
    /\ UNCHANGED <<ANNICT_TOKEN, mode, works_list, status, requests, data,
                   episode_list, dir, dir0, sorted_files_all,
                   start_file_num_input, sorted_files, rename_plan, planBuilt,
                   confirmation, abort, attempted, arg>>

NextSanitize == GetEpisodesTitles \/ Resanitize

SpecSanitize == InitSanitize /\ [][NextSanitize]_vars

(* ------------------------------ properties ----------------------------- *)

\* the 1-based offset the user gave, 1 for the empty input
OffsetGiven ==
    IF start_file_num_input = <<>> THEN 1 ELSE int_of_input(start_file_num_input)[1]

\* a number at width 2: one digit gets a leading zero
Pad2(n) == IF n \in 0..9 THEN <<"0", DigitChar(n)>> ELSE str(n)

\* the four-character extension of an allow-listed name; a name that is
\* nothing but dots before it has none
OwnExtension(f) ==
    IF \E j \in 1..(Len(f) - 4) : f[j] # "."
    THEN SubSeq(f, Len(f) - 3, Len(f))
    ELSE <<>>

\* C1: a built plan has min(files from the offset, usable episodes) entries;
\* entry i pairs the i-th file of the naturally sorted allow-listed files
\* after the offset with "NN - title.ext" of the i-th episode record, and
\* the files beyond that count are in no entry.
C1_PlanIsPositional ==
    planBuilt =>
        LET n == Min(Len(sorted_files_all) - OffsetGiven + 1, Len(episode_list))
        IN  /\ {sorted_files_all[i] : i \in 1..Len(sorted_files_all)}
                   = {f \in dir0 : IsVideo(f)}
            /\ \A i, j \in 1..Len(sorted_files_all) :
                   i < j => ~NatLess(sorted_files_all[j], sorted_files_all[i])
            /\ Len(rename_plan) = n
            /\ \A i \in 1..n :
                   LET f == sorted_files_all[OffsetGiven - 1 + i]
                       e == episode_list[i]
                   IN  /\ rename_plan[i].old = f
                       /\ rename_plan[i].new =
                              Pad2(e.num) \o <<" ", "-", " ">> \o e.title \o OwnExtension(f)
            /\ \A i \in (OffsetGiven + n)..Len(sorted_files_all) :
                   \A j \in 1..Len(rename_plan) :
                       rename_plan[j].old # sorted_files_all[i]

\* three files from offset 1 against two episodes, the second numbered 12
C1_Witness ==
    /\ planBuilt
    /\ start_file_num_input = <<"1">>
    /\ Len(sorted_files_all) = 3
    /\ Len(rename_plan) = 2
    /\ episode_list[2].num = 12

\* C2: offset 0, a negative offset, a non-integer input and an offset
\* above the number of files abort with InvalidOffset, nothing planned or
\* renamed and nothing raised; offset 1 and the empty input pass.
C2_OffsetValidation ==
    (sorted_files_all # <<>> /\ pc # "offset") =>
        LET n == Len(sorted_files_all)
        IN  /\ ( \/ start_file_num_input \in
                        {<<"0">>, <<"-", "1">>, <<"1", ".", "5">>}
                  \/ \E m \in (n + 1)..(MaxFiles + 1) : start_file_num_input = str(m) )
                  => /\ abort = "InvalidOffset"
                     /\ pc = "done"
                     /\ ~planBuilt
                     /\ rename_plan = <<>>
                     /\ attempted = <<>>
                     /\ dir = dir0
            /\ start_file_num_input \in {<<>>, <<"1">>}
                  => /\ abort # "InvalidOffset"
                     /\ sorted_files = sorted_files_all

\* offset 3 against two files
C2_Witness ==
    /\ abort = "InvalidOffset"
    /\ start_file_num_input = <<"3">>
    /\ Len(sorted_files_all) = 2

\* the directory after the successful renames of a log, in order
RECURSIVE Replay(_, _)
Replay(d, log) ==
    IF log = <<>> THEN d
    ELSE LET e == log[Len(log)]
             before == Replay(d, SubSeq(log, 1, Len(log) - 1))
         IN  IF e.result = "ok" THEN (before \ {e.old}) \cup {e.new} ELSE before

\* C3: the attempts are the entries of the plan, in plan order, each once;
\* when the execution of a confirmed plan has ended every entry has been
\* attempted, whatever failed before it; the directory holds the effect of
\* every successful rename, none undone.
C3_EveryEntryAttempted ==
    /\ Len(attempted) <= Len(rename_plan)
    /\ \A i \in 1..Len(attempted) :
           /\ attempted[i].old = rename_plan[i].old
           /\ attempted[i].new = rename_plan[i].new
    /\ (pc = "done" /\ planBuilt /\ abort = "none")
           => Len(attempted) = Len(rename_plan)
    /\ dir = Replay(dir0, attempted)

\* the first entry failed, the second was renamed
C3_Witness ==
    /\ pc = "done"
    /\ Len(attempted) = 2
    /\ attempted[1].result = "error"
    /\ attempted[2].result = "ok"
    /\ attempted[2].new \in dir

\* C4: nothing is renamed unless the plan was built and the last answer
\* was y; after every abort the directory is as it was.
C4_NoRenameWithoutConfirmation ==
    /\ (attempted # <<>> \/ dir # dir0 \/ pc = "exec")
           => (planBuilt /\ confirmation = <<"y">>)
    /\ abort # "none"
           => (pc = "done" /\ attempted = <<>> /\ dir = dir0)

\* a built plan, declined
C4_Witness ==
    /\ abort = "DeclinedPlan"
    /\ planBuilt
    /\ rename_plan # <<>>
    /\ pc = "done"

\* C5: after a transport or authentication failure the call has returned
\* an empty list, nothing was raised to the controller, and the request
\* was not sent again.
C5_FailureReturnsEmpty ==
    status \in {"401", "ConnectionError"} =>
        /\ pc # "crashed"
        /\ episode_list = <<>>
        /\ (mode = "1" /\ requests = 1) => works_list = <<>>
        /\ requests <= 2

\* C6, as claimed: every returned episode number is non-negative.
C6_NumbersNonNegative ==
    \A i \in 1..Len(episode_list) : episode_list[i].num >= 0

\* C6, amended: every returned episode number is non-negative when no
\* numeric number field of the response is -1 or less.
C6_NonNegativeUnlessFieldNegative ==
    (\A j \in 1..Len(data) : data[j].number.isnum => data[j].number.halves > -2)
        => \A i \in 1..Len(episode_list) : episode_list[i].num >= 0

\* a field of -0.5 and a number read from number_text
C6_Witness ==
    /\ Len(episode_list) = 2
    /\ data[1].number = JsonNum(-1)
    /\ data[2].number = JsonNull
    /\ episode_list[1].num = 0

\* the integer a JSON number in halves truncates to
Truncated(h) ==
    CHOOSE t \in -(h * h + 1)..(h * h + 1) :
        IF h >= 0 THEN 2 * t <= h /\ h < 2 * t + 2
        ELSE 2 * t - 2 < h /\ h <= 2 * t

\* the j-th smallest member of a set of numbers
Nth(K, j) == CHOOSE k \in K : Cardinality({m \in K : m < k}) = j - 1

\* C7: after a successful response the returned list is the items with a
\* number (a numeric field, or a digit in number_text), in the order of the
\* response, each with its number: the field truncated, or else the number
\* of number_text.
C7_ReturnedInServerOrder ==
    status = "200" =>
        LET text(j) == IF data[j].number_text = None THEN <<>>
                       ELSE data[j].number_text[1]
            K == {j \in 1..Len(data) :
                     \/ data[j].number.isnum
                     \/ \E c \in 1..Len(text(j)) : text(j)[c] \in Digits}
        IN  /\ Len(episode_list) = Cardinality(K)
            /\ \A i \in 1..Len(episode_list) :
                   LET item == data[Nth(K, i)]
                   IN  /\ episode_list[i].num =
                              IF item.number.isnum
                              THEN Truncated(item.number.halves)
                              ELSE extract_episode_number(text(Nth(K, i)))[1]
                       /\ episode_list[i].title = re_sub(OrElse(item.title, NoTitle))

\* an item without a number dropped before 12.5, returned as 12
C7_Witness ==
    /\ status = "200"
    /\ Len(data) = 2
    /\ ~data[1].number.isnum
    /\ Len(episode_list) = 1
    /\ episode_list[1].num = 12

\* the value of the decimal digits s[b..e]
RECURSIVE DecimalValue(_, _, _)
DecimalValue(s, b, e) ==
    IF b > e THEN 0
    ELSE DigitVal(s[b]) * 10 ^ (e - b) + DecimalValue(s, b + 1, e)

\* C8: extract_episode_number returns the value of the first maximal run
\* of digits of the label, whatever follows the run, and None exactly when
\* the label has no digit.
C8_FirstDigitRun ==
    pc = "returned" =>
        LET digits == {i \in 1..Len(arg) : arg[i] \in Digits}
        IN  IF digits = {} THEN ret = None
            ELSE LET b == CHOOSE i \in digits : \A j \in digits : i <= j
                     e == CHOOSE i \in b..Len(arg) :
                              /\ \A k \in b..i : arg[k] \in Digits
                              /\ (i = Len(arg) \/ arg[i + 1] \notin Digits)
                 IN  ret = Some(DecimalValue(arg, b, e))

\* "3.5" gives 3
C8_Witness ==
    /\ pc = "returned"
    /\ arg = <<"3", ".", "5">>
    /\ ret = Some(3)

\* C9: a returned title is the title of the response with each reserved
\* character replaced by '_' and every other character kept; it holds no
\* reserved character; sanitizing it again changes nothing.
C9_SanitizeExactIdempotent ==
    /\ \A i \in 1..Len(episode_list) :
           \A c \in 1..Len(episode_list[i].title) :
               episode_list[i].title[c] \notin Reserved
    /\ episode_list # <<>> =>
           LET given == IF data[1].title = None \/ data[1].title[1] = <<>>
                        THEN NoTitle ELSE data[1].title[1]
               title == episode_list[1].title
           IN  /\ Len(title) = Len(given)
               /\ \A c \in 1..Len(given) :
                      title[c] = IF given[c] \in Reserved THEN "_" ELSE given[c]
    /\ pc = "resanitized" => ret = Some(episode_list[1].title)

\* a title of a backslash and a letter, sanitized twice
C9_Witness ==
    /\ pc = "resanitized"
    /\ data[1].title = Some(<<"\\", "a">>)
    /\ ret = Some(<<"_", "a">>)

\* C10: the new names of a plan are pairwise distinct and none is the old
\* name of a later entry; the directory holds as many files after the
\* execution as before it.
C10_NoCollision ==
    /\ planBuilt =>
           \A i, j \in 1..Len(rename_plan) :
               i < j => /\ rename_plan[i].new # rename_plan[j].new
                        /\ rename_plan[i].new # rename_plan[j].old
    /\ pc = "done" => Cardinality(dir) = Cardinality(dir0)

====
